---- MODULE Spec2Model ----
(***************************************************************************)
(* Model of dashboard.py: the dealer dataset, the geocoding cache          *)
(* (cachetools TTLCache + @cached around geocode_postal_code), the         *)
(* load-time enrichment loop, filter_data, the tab functions and           *)
(* analyze_sentiment.                                                      *)
(*                                                                         *)
(* Conventions: Python None / pandas NaN is the string "None"; ratings are *)
(* integers in tenths (35 is 3.5); polarities are integers in hundredths   *)
(* (20 is 0.2); postal codes are numbered, NoneCode being a missing one;   *)
(* coordinates are kept as their decimal text.                             *)
(***************************************************************************)
EXTENDS Integers, Sequences, FiniteSets, TLC

VARIABLES
    now,            \* reading of the cache's timer (time.monotonic), seconds
    cache,          \* TTLCache: its entries [key, value, expires] in __links order
    last,           \* the most recent geocode_postal_code call and what preceded it
    hist,           \* per tracked postal code: what earlier calls did
    fresh,          \* number of never-seen postal codes resolved so far
    runs,           \* number of runs of the script so far
    dealers_data,   \* the parsed JSON
    df,             \* the DataFrame, one record per row
    index,          \* position of the enrichment loop
    log,            \* what the enrichment loop did for each row so far
    pc,             \* position of the script
    sidebar,        \* the sidebar's widget values
    filtered_df,    \* filter_data's result
    view,           \* what the last tab function produced
    updated_dealers,    \* fetch_live_reviews' list, as positions in dealers_data
    refreshes,      \* number of calls of fetch_live_reviews so far
    reviews,        \* analyze_sentiment's argument
    sentiment_summary   \* analyze_sentiment's result

vars == <<now, cache, last, hist, fresh, runs, dealers_data, df, index, log, pc,
          sidebar, filtered_df, view, updated_dealers, refreshes, reviews,
          sentiment_summary>>

geoVars == <<now, cache, last, hist, fresh, runs>>
scriptVars == <<dealers_data, df, index, log, pc, sidebar, filtered_df, view,
               updated_dealers, refreshes>>
sentVars == <<reviews, sentiment_summary>>

---------------------------------------------------------------------------
(* Program constants *)

\* TTLCache(maxsize=100, ttl=86400)
MaxSize == 100
TTL == 86400
\* the "Positive"/"Negative" thresholds 0.2 and -0.2, in hundredths
PosThreshold == 20
NegThreshold == -20
\* icon colour threshold: row["Rating"] >= 4, in tenths
BlueRating == 40
\* dealer.get("postal_code", None): the key of a record without postal code
NoneCode == -1

(* Bounds of the model *)

\* never-seen postal codes are resolved one call after the other; the timer
\* is seen to advance and known postal codes are resolved after every
\* PauseEvery of them, and after each of them from the FillRun-th on
PauseEvery == 33
FillRun == 98
\* never-seen postal codes resolved after the FillRun-th
MaxSingles == 2
\* runs of the script
MaxRuns == 2
\* the timer stops advancing here
MaxTime == 129600
\* rows of the dataset
MaxRecords == 2
\* reviews handed to analyze_sentiment
MaxReviews == 3
\* calls of fetch_live_reviews
MaxRefresh == 1
\* base-2^15 digits kept of a float64's fraction
FracLimbs == 5

None == "None"

\* the postal codes of the datasets, and the one resolved again and again
DataCodes == {0, 1}
HotCodes == {0}
TrackedCodes == DataCodes \cup {NoneCode}
\* the n-th never-seen postal code
FreshCode(n) == Cardinality(DataCodes) + n

\* advances of the timer between calls
Ticks == {TTL \div 2, TTL - 1}

---------------------------------------------------------------------------
(* The external geocoding service: what requests.get(...).json() yields,   *)
(* or the exception it raises.                                             *)

Toronto == [lat |-> "43.65", lng |-> "-79.38"]
Vancouver == [lat |-> "49.28", lng |-> "-123.12"]

Responses ==
    { [raises |-> FALSE, status |-> "OK", results |-> <<Toronto>>],
      [raises |-> FALSE, status |-> "OK", results |-> <<Vancouver>>],
      [raises |-> FALSE, status |-> "OK", results |-> <<>>],
      [raises |-> FALSE, status |-> "ZERO_RESULTS", results |-> <<>>],
      [raises |-> TRUE, status |-> "ConnectionError", results |-> <<>>] }

\* what the service answers for the never-seen postal codes
FreshResponses ==
    { [raises |-> FALSE, status |-> "OK", results |-> <<Toronto>>] }

IsFailure(resp) == resp.raises \/ resp.status # "OK" \/ resp.results = <<>>

NoneNone == <<None, None>>

\* the body of geocode_postal_code once the response is there
GeocodeBody(resp) ==
    IF resp.status = "OK" /\ resp.results # <<>>
    THEN <<resp.results[1].lat, resp.results[1].lng>>
    ELSE NoneNone

---------------------------------------------------------------------------
(* cachetools.TTLCache *)

HasKey(c, k) == \E i \in 1 .. Len(c) : c[i].key = k
IndexOf(c, k) == CHOOSE i \in 1 .. Len(c) : c[i].key = k
RemoveAt(c, i) == SubSeq(c, 1, i - 1) \o SubSeq(c, i + 1, Len(c))

\* an entry is expired when not (timer() < link.expires)
Unexpired(e, t) == t < e.expires

\* TTLCache.expire(time): drop every expired entry
Expire(c, t) == SelectSeq(c, LAMBDA e : Unexpired(e, t))

\* TTLCache.__getlink: __links.move_to_end(key)
GetLink(c, k) == LET i == IndexOf(c, k) IN RemoveAt(c, i) \o <<c[i]>>

\* TTLCache.__getitem__: found, or KeyError
CacheGetItem(c, k, t) ==
    IF ~HasKey(c, k)
    THEN [found |-> FALSE, value |-> NoneNone, cache |-> c]
    ELSE LET i == IndexOf(c, k)
             c2 == GetLink(c, k)
         IN IF Unexpired(c[i], t)
            THEN [found |-> TRUE, value |-> c[i].value, cache |-> c2]
            ELSE [found |-> FALSE, value |-> NoneNone, cache |-> c2]

\* TTLCache.popitem: expire, then remove the first key of __links
PopItem(c, t) == Tail(Expire(c, t))

\* as EvictLoop, evicting only once the cache is over its size
RECURSIVE EvictLoopLate(_, _)
EvictLoopLate(c, t) ==
    IF Len(c) > MaxSize THEN EvictLoopLate(PopItem(c, t), t) ELSE c

\* Cache.__setitem__'s loop: while currsize + size > maxsize: popitem()
RECURSIVE EvictLoop(_, _)
EvictLoop(c, t) ==
    IF Len(c) + 1 > MaxSize THEN EvictLoop(PopItem(c, t), t) ELSE c

\* TTLCache.__setitem__
CacheSetItem(c, k, v, t) ==
    LET c1 == Expire(c, t)
        e == [key |-> k, value |-> v, expires |-> t + TTL]
    IN IF HasKey(c1, k)
       THEN RemoveAt(c1, IndexOf(c1, k)) \o <<e>>
       ELSE EvictLoop(c1, t) \o <<e>>

\* @cached(cache) around geocode_postal_code: one call with the service
\* answering resp if asked
GeocodePostalCode(c, t, postal_code, resp) ==
    LET got == CacheGetItem(c, postal_code, t)
    IN IF got.found
       THEN [cache |-> got.cache, raised |-> FALSE, value |-> got.value,
             lookups |-> 0]
       ELSE IF resp.raises
            THEN [cache |-> got.cache, raised |-> TRUE, value |-> NoneNone,
                  lookups |-> 1]
            ELSE LET v == GeocodeBody(resp)
                 IN [cache |-> CacheSetItem(got.cache, postal_code, v, t),
                     raised |-> FALSE, value |-> v, lookups |-> 1]

---------------------------------------------------------------------------
(* What earlier calls did, kept for each tracked postal code.              *)
(*   callAt     time of the most recent call (-1: none yet)                *)
(*   callRaised that call ended in an exception                            *)
(*   callFailed that call asked the service and the lookup failed          *)
(*   callVal    what that call returned                                    *)
(*   insAt      time the most recent result was stored (-1: none yet)      *)
(*   renewAt    time of the most recent call that was the first to find    *)
(*              the stored result expired (-1: none yet)                   *)
(*   others     the other postal codes resolved since the most recent call *)

NoHist == [callAt |-> -1, callRaised |-> FALSE, callFailed |-> FALSE,
           callVal |-> NoneNone, insAt |-> -1, renewAt |-> -1, others |-> {}]

NoCall == [code |-> NoneCode, time |-> -1, lookups |-> 0, raised |-> FALSE,
           failed |-> FALSE, value |-> NoneNone, prev |-> NoHist]

\* hist after the call of postal_code at time t that ended as r
HistAfter(h, t, postal_code, resp, r) ==
    [c \in TrackedCodes |->
        IF c = postal_code
        THEN [callAt |-> t,
              callRaised |-> r.raised,
              callFailed |-> (r.lookups = 1 /\ IsFailure(resp)),
              callVal |-> r.value,
              insAt |-> IF r.lookups = 1 /\ ~r.raised THEN t ELSE h[c].insAt,
              renewAt |-> IF /\ h[c].insAt >= 0
                             /\ t >= h[c].insAt + TTL
                             /\ h[c].callAt < h[c].insAt + TTL
                          THEN t ELSE h[c].renewAt,
              others |-> {}]
        ELSE [h[c] EXCEPT !.others = @ \cup {postal_code}]]

CallRecord(h, t, postal_code, resp, r) ==
    [code |-> postal_code, time |-> t, lookups |-> r.lookups,
     raised |-> r.raised, failed |-> (r.lookups = 1 /\ IsFailure(resp)),
     value |-> r.value,
     prev |-> IF postal_code \in TrackedCodes THEN h[postal_code] ELSE NoHist]

\* one call of geocode_postal_code and its bookkeeping
Call(st, t, postal_code, resp) ==
    LET r == GeocodePostalCode(st.cache, t, postal_code, resp)
    IN [cache |-> r.cache,
        last |-> CallRecord(st.hist, t, postal_code, resp, r),
        hist |-> HistAfter(st.hist, t, postal_code, resp, r)]

---------------------------------------------------------------------------
(* The geocoding cache under arbitrary callers *)

NoSidebar ==
    [start_date |-> "", end_date |-> "", province_filter |-> {},
     dealer_filter |-> "All Dealers", rating_range |-> <<10, 50>>]

InitScriptIdle ==
    /\ dealers_data = <<>>
    /\ df = <<>>
    /\ index = 0
    /\ log = <<>>
    /\ pc = "idle"
    /\ sidebar = NoSidebar
    /\ filtered_df = <<>>
    /\ view = [tab |-> "none", status |-> "ok"]
    /\ updated_dealers = <<>>
    /\ refreshes = 0

InitSentIdle ==
    /\ reviews = <<>>
    /\ sentiment_summary = [Positive |-> 0, Neutral |-> 0, Negative |-> 0]

InitCache ==
    /\ now = 0
    /\ cache = <<>>
    /\ last = NoCall
    /\ hist = [c \in TrackedCodes |-> NoHist]
    /\ fresh = 0
    /\ runs = 1

InitGeo == InitCache /\ InitScriptIdle /\ InitSentIdle

\* the points of a run of never-seen postal codes at which the timer is seen
\* to have advanced and known postal codes are resolved
Pause == fresh % PauseEvery = 0 \/ fresh >= FillRun

\* geocode_postal_code(postal_code) for a postal code seen before or not
Resolve(postal_code, resp) ==
    /\ Pause
    /\ LET st == Call([cache |-> cache, last |-> last, hist |-> hist], now,
                      postal_code, resp)
       IN /\ cache' = st.cache
          /\ last' = st.last
          /\ hist' = st.hist
    /\ UNCHANGED <<now, fresh, runs>>
    /\ UNCHANGED scriptVars
    /\ UNCHANGED sentVars

\* geocode_postal_code for one never-seen postal code
ResolveFresh(resp) ==
    /\ fresh < FillRun + MaxSingles
    /\ LET st == Call([cache |-> cache, last |-> last, hist |-> hist], now,
                      FreshCode(fresh), resp)
       IN /\ cache' = st.cache
          /\ last' = st.last
          /\ hist' = st.hist
    /\ fresh' = fresh + 1
    /\ UNCHANGED <<now, runs>>
    /\ UNCHANGED scriptVars
    /\ UNCHANGED sentVars

\* time passes
Tick(d) ==
    /\ Pause
    /\ now + d <= MaxTime
    /\ now' = now + d
    /\ UNCHANGED <<cache, last, hist, fresh, runs>>
    /\ UNCHANGED scriptVars
    /\ UNCHANGED sentVars

\* the script runs again: cache = TTLCache(maxsize=100, ttl=86400)
Rerun ==
    /\ Pause
    /\ runs < MaxRuns
    /\ runs' = runs + 1
    /\ cache' = <<>>
    /\ UNCHANGED <<now, last, hist, fresh>>
    /\ UNCHANGED scriptVars
    /\ UNCHANGED sentVars

NextGeo ==
    \/ \E c \in HotCodes, resp \in Responses : Resolve(c, resp)
    \/ \E resp \in FreshResponses : ResolveFresh(resp)
    \/ \E d \in Ticks : Tick(d)
    \/ Rerun

SpecGeo == InitGeo /\ [][NextGeo]_vars

---------------------------------------------------------------------------
(* The dataset: dealers_data (the JSON) and df (the DataFrame).            *)
(* A missing optional key of a dealer is Missing (province), NoneCode      *)
(* (postal_code), None (latitude, longitude) or <<>> (reviews); a review   *)
(* is [polarity, time], its text standing as the polarity TextBlob gives.  *)
(* The keys "Rating", "Total Reviews", "Reviews" and "Status" of a dealer  *)
(* are those fetch_live_reviews writes and are Missing until then.         *)

Missing == "<missing>"

\* Convert JSON to DataFrame: one row per dealer, labelled 0, 1, ...
RowOf(dealer, label) ==
    [label |-> label,
     Dealer |-> dealer.actual_name,
     Rating |-> dealer.overall_rating,
     TotalReviews |-> dealer.total_reviews,
     Province |-> IF dealer.province = Missing THEN "Unknown"
                  ELSE dealer.province,
     PostalCode |-> dealer.postal_code,
     Latitude |-> dealer.latitude,
     Longitude |-> dealer.longitude,
     ReviewTime |-> [i \in 1 .. Len(dealer.reviews) |-> dealer.reviews[i].time]]

BuildFrame(data) == [i \in 1 .. Len(data) |-> RowOf(data[i], i - 1)]

IsNa(x) == x = None

---------------------------------------------------------------------------
(* fetch_live_reviews. The Places service answers a request with a status  *)
(* code and a JSON body, or requests.get raises; a body is a dict, held as  *)
(* a function from its keys.                                               *)

EmptyDict == <<>>

\* d.get(key, default)
Get(d, key, default) == IF key \in DOMAIN d THEN d[key] ELSE default

PlaceResponses ==
    { [raises |-> FALSE, status_code |-> 200,
       json |-> [result |-> [rating |-> 49, user_ratings_total |-> 77,
                             reviews |-> <<"r1", "r2">>]]],
      [raises |-> FALSE, status_code |-> 200,
       json |-> [result |-> [name |-> "A"]]],
      [raises |-> FALSE, status_code |-> 200, json |-> [status |-> "NOT_FOUND"]],
      [raises |-> FALSE, status_code |-> 500, json |-> EmptyDict],
      [raises |-> TRUE, status_code |-> 0, json |-> EmptyDict] }

\* not place_id
Falsy(place_id) == place_id \in {Missing, None, ""}

\* the loop body for one dealer whose request was answered by resp
FetchOne(dealer, resp) ==
    IF resp.status_code = 200
    THEN LET result == Get(resp.json, "result", EmptyDict)
         IN IF result # EmptyDict
            THEN [dealer EXCEPT !.Rating = Get(result, "rating", None),
                                !.TotalReviews =
                                    Get(result, "user_ratings_total", None),
                                !.Reviews = Get(result, "reviews", <<>>),
                                !.Status = "Updated"]
            ELSE [dealer EXCEPT !.Status = "Failed: No Results"]
    ELSE [dealer EXCEPT !.Status = <<"Failed: ", resp.status_code>>]

\* one pass of the loop for the i-th dealer, its request answered by resp:
\* the dealers as the pass leaves them, and whether an exception ended it
FetchPass(dealers, i, resp) ==
    IF Falsy(dealers[i].place_id)
    THEN [dealers |-> [dealers EXCEPT ![i].Status = "Failed: No Place ID"],
          raised |-> FALSE]
    ELSE IF resp.raises THEN [dealers |-> dealers, raised |-> TRUE]
    ELSE [dealers |-> [dealers EXCEPT ![i] = FetchOne(dealers[i], resp)],
          raised |-> FALSE]

---------------------------------------------------------------------------
(* analyze_sentiment *)

\* as Classify, the thresholds themselves counting as Positive and Negative
ClassifyInclusive(summary, p) ==
    IF p >= PosThreshold
    THEN [summary EXCEPT !.Positive = @ + 1]
    ELSE IF p <= NegThreshold
         THEN [summary EXCEPT !.Negative = @ + 1]
         ELSE [summary EXCEPT !.Neutral = @ + 1]

\* one pass of the loop body for a review of polarity p
Classify(summary, p) ==
    IF p > PosThreshold
    THEN [summary EXCEPT !.Positive = @ + 1]
    ELSE IF p < NegThreshold
         THEN [summary EXCEPT !.Negative = @ + 1]
         ELSE [summary EXCEPT !.Neutral = @ + 1]

RECURSIVE SentimentLoop(_, _)
SentimentLoop(summary, rs) ==
    IF rs = <<>> THEN summary
    ELSE SentimentLoop(Classify(summary, Head(rs)), Tail(rs))

AnalyzeSentiment(rs) ==
    SentimentLoop([Positive |-> 0, Neutral |-> 0, Negative |-> 0], rs)

---------------------------------------------------------------------------
(* filter_data *)

\* df[mask]: the rows whose mask is true, in df's order
RECURSIVE MaskSelect(_, _)
MaskSelect(frame, mask) ==
    IF frame = <<>> THEN <<>>
    ELSE (IF mask[1] THEN <<Head(frame)>> ELSE <<>>)
            \o MaskSelect(Tail(frame), Tail(mask))

\* as RatingMask, the lower bound excluded
RatingMaskStrict(frame, ratings) ==
    [i \in 1 .. Len(frame) |->
        frame[i].Rating > ratings[1] /\ frame[i].Rating <= ratings[2]]

RatingMask(frame, ratings) ==
    [i \in 1 .. Len(frame) |->
        frame[i].Rating >= ratings[1] /\ frame[i].Rating <= ratings[2]]

ProvinceMask(frame, provinces) ==
    [i \in 1 .. Len(frame) |-> frame[i].Province \in provinces]

DealerMask(frame, dealer) ==
    [i \in 1 .. Len(frame) |-> frame[i].Dealer = dealer]

FilterData(frame, start_date, end_date, provinces, ratings, dealer) ==
    LET rm == RatingMask(frame, ratings)
        pm == ProvinceMask(frame, provinces)
        filtered == MaskSelect(frame, [i \in 1 .. Len(frame) |-> rm[i] /\ pm[i]])
    IN IF dealer # "All Dealers"
       THEN MaskSelect(filtered, DealerMask(filtered, dealer))
       ELSE filtered

---------------------------------------------------------------------------
(* The tab functions; each yields what it hands to streamlit, or the       *)
(* exception that ends it.                                                 *)

\* Series.sum()
RECURSIVE SumOf(_)
SumOf(xs) == IF xs = <<>> THEN 0 ELSE Head(xs) + SumOf(Tail(xs))

RatingColumn(frame) == [i \in 1 .. Len(frame) |-> frame[i].Rating]
TotalReviewsColumn(frame) == [i \in 1 .. Len(frame) |-> frame[i].TotalReviews]

---------------------------------------------------------------------------
(* float64 arithmetic. A non-negative double below 2^15 is held as the     *)
(* integer x * 2^FracBits, written in base 2^15, least significant digit   *)
(* first: FracLimbs digits of fraction, then one digit of integer part.    *)

Base == 2 ^ 15
FracBits == 15 * FracLimbs
\* binary digits of a float64's significand
Mantissa == 53

\* the integer n as such a number
BigOfInt(n) == [i \in 1 .. FracLimbs + 1 |-> IF i = FracLimbs + 1 THEN n ELSE 0]

\* the number whose only digit is its least significant one
BigOfDigit(d) == [i \in 1 .. FracLimbs + 1 |-> IF i = 1 THEN d ELSE 0]

RECURSIVE BigAddFrom(_, _, _, _)
BigAddFrom(a, b, i, carry) ==
    IF i > Len(a) THEN <<>>
    ELSE LET d == a[i] + b[i] + carry
         IN <<d % Base>> \o BigAddFrom(a, b, i + 1, d \div Base)

BigAdd(a, b) == BigAddFrom(a, b, 1, 0)

\* a - b for a >= b
RECURSIVE BigSubFrom(_, _, _, _)
BigSubFrom(a, b, i, borrow) ==
    IF i > Len(a) THEN <<>>
    ELSE LET d == a[i] - b[i] - borrow
         IN <<d % Base>> \o BigSubFrom(a, b, i + 1, IF d < 0 THEN 1 ELSE 0)

BigSub(a, b) == BigSubFrom(a, b, 1, 0)

\* a * m for 0 <= m < Base
RECURSIVE BigMulFrom(_, _, _, _)
BigMulFrom(a, m, i, carry) ==
    IF i > Len(a) THEN <<>>
    ELSE LET d == a[i] * m + carry
         IN <<d % Base>> \o BigMulFrom(a, m, i + 1, d \div Base)

BigMulSmall(a, m) == BigMulFrom(a, m, 1, 0)

\* quotient and remainder of a by d, 0 < d < Base, from the top digit down
RECURSIVE BigDivFrom(_, _, _, _)
BigDivFrom(a, d, i, rem) ==
    IF i = 0 THEN [q |-> <<>>, r |-> rem]
    ELSE LET cur == rem * Base + a[i]
             rest == BigDivFrom(a, d, i - 1, cur % d)
         IN [q |-> Append(rest.q, cur \div d), r |-> rest.r]

BigDivSmall(a, d) == BigDivFrom(a, d, Len(a), 0)

\* -1, 0, 1 as a < b, a = b, a > b
RECURSIVE BigCmpFrom(_, _, _)
BigCmpFrom(a, b, i) ==
    IF i = 0 THEN 0
    ELSE IF a[i] < b[i] THEN -1
    ELSE IF a[i] > b[i] THEN 1
    ELSE BigCmpFrom(a, b, i - 1)

BigCmp(a, b) == BigCmpFrom(a, b, Len(a))

RECURSIVE BitsOf(_)
BitsOf(n) == IF n = 0 THEN 0 ELSE 1 + BitsOf(n \div 2)

\* number of binary digits of a
RECURSIVE BitLengthFrom(_, _)
BitLengthFrom(a, i) ==
    IF i = 0 THEN 0
    ELSE IF a[i] # 0 THEN 15 * (i - 1) + BitsOf(a[i])
    ELSE BitLengthFrom(a, i - 1)

BitLength(a) == BitLengthFrom(a, Len(a))

\* a * 2^s and a \div 2^s
ShiftLeft(a, s) ==
    LET k == s \div 15
    IN BigMulSmall([i \in 1 .. Len(a) |-> IF i <= k THEN 0 ELSE a[i - k]],
                   2 ^ (s % 15))

ShiftRight(a, s) ==
    LET k == s \div 15
    IN BigDivSmall([i \in 1 .. Len(a) |-> IF i + k <= Len(a) THEN a[i + k] ELSE 0],
                   2 ^ (s % 15)).q

\* round to nearest, ties to even, to Mantissa binary digits; a is the exact
\* value cut off after FracBits binary digits, inexact telling that something
\* non-zero was cut off
RoundToDouble(a, inexact) ==
    LET len == BitLength(a)
        s == len - Mantissa
        q == ShiftRight(a, s)
        rem == BigSub(a, ShiftLeft(q, s))
        half == ShiftLeft(BigOfDigit(1), s - 1)
        c == BigCmp(rem, half)
        up == c > 0 \/ (c = 0 /\ (inexact \/ q[1] % 2 = 1))
    IN IF len <= Mantissa THEN a
       ELSE ShiftLeft(IF up
                      THEN BigAdd(q, BigOfDigit(1))
                      ELSE q, s)

\* the float64 of the JSON number tenths / 10
DoubleOfTenths(tenths) ==
    LET d == BigDivSmall(BigOfInt(tenths), 10) IN RoundToDouble(d.q, d.r # 0)

\* float64 a + b and a / n
DoubleAdd(a, b) == RoundToDouble(BigAdd(a, b), FALSE)
DoubleDivInt(a, n) ==
    LET d == BigDivSmall(a, n) IN RoundToDouble(d.q, d.r # 0)

\* numpy's sum of a[from .. to], all of it added left to right
RECURSIVE SumLoop(_, _, _, _)
SumLoop(acc, a, from, to) ==
    IF from > to THEN acc
    ELSE SumLoop(DoubleAdd(acc, a[from]), a, from + 1, to)

\* the eight running sums of numpy's unrolled loop over a[from .. to]
RECURSIVE SumBlocks(_, _, _, _)
SumBlocks(r, a, from, to) ==
    IF from > to THEN r
    ELSE SumBlocks([j \in 1 .. 8 |-> DoubleAdd(r[j], a[from + j - 1])],
                   a, from + 8, to)

\* numpy's pairwise sum of the n doubles a[first], a[first + 1], ...
RECURSIVE PairwiseSum(_, _, _)
PairwiseSum(a, first, n) ==
    IF n < 8
    THEN SumLoop(BigOfInt(0), a, first, first + n - 1)
    ELSE IF n <= 128
    THEN LET whole == n - (n % 8)
             r == SumBlocks([j \in 1 .. 8 |-> a[first + j - 1]], a,
                            first + 8, first + whole - 1)
             res == DoubleAdd(
                        DoubleAdd(DoubleAdd(r[1], r[2]), DoubleAdd(r[3], r[4])),
                        DoubleAdd(DoubleAdd(r[5], r[6]), DoubleAdd(r[7], r[8])))
         IN SumLoop(res, a, first + whole, first + n - 1)
    ELSE LET half == (n \div 2) - ((n \div 2) % 8)
         IN DoubleAdd(PairwiseSum(a, first, half),
                      PairwiseSum(a, first + half, n - half))

\* Series.mean() of a non-empty column of doubles
Mean(a) == DoubleDivInt(PairwiseSum(a, 1, Len(a)), Len(a))

\* f"{x:.2f}", in hundredths: the nearest to x, ties to even
Format2f(x) ==
    LET t == BigMulSmall(x, 100)
        whole == t[FracLimbs + 1]
        frac == [t EXCEPT ![FracLimbs + 1] = 0]
        c == BigCmp(frac, ShiftRight(BigOfInt(1), 1))
    IN IF c > 0 \/ (c = 0 /\ whole % 2 = 1) THEN whole + 1 ELSE whole

\* Series.mean() then the format: "nan" for an empty frame
AverageRating(frame) ==
    IF frame = <<>> THEN [nan |-> TRUE, hundredths |-> 0]
    ELSE [nan |-> FALSE,
          hundredths |-> Format2f(Mean([i \in 1 .. Len(frame) |->
                                          DoubleOfTenths(frame[i].Rating)]))]

\* the elements of a set of integers in ascending order
RECURSIVE Ascending(_)
Ascending(S) ==
    IF S = {} THEN <<>>
    ELSE LET m == CHOOSE x \in S : \A y \in S : x <= y
         IN <<m>> \o Ascending(S \ {m})

\* value_counts().sort_index() of a sequence of integers
ValueCounts(xs) ==
    LET keys == Ascending({xs[i] : i \in 1 .. Len(xs)})
    IN [k \in 1 .. Len(keys) |->
          <<keys[k], Cardinality({i \in 1 .. Len(xs) : xs[i] = keys[k]})>>]

NationalOverview(filtered) ==
    [tab |-> "national_overview", status |-> "ok",
     total_dealers |-> Len(filtered),
     average_rating |-> AverageRating(filtered),
     total_reviews |-> SumOf(TotalReviewsColumn(filtered)),
     distribution |-> ValueCounts(RatingColumn(filtered))]

RECURSIVE Flatten(_)
Flatten(lists) ==
    IF lists = <<>> THEN <<>> ELSE Head(lists) \o Flatten(Tail(lists))

\* the reviews' polarities of every dealer of the JSON with that name
ReviewsOf(data, name) ==
    Flatten([i \in 1 .. Len(data) |->
        IF data[i].actual_name = name
        THEN [j \in 1 .. Len(data[i].reviews) |-> data[i].reviews[j].polarity]
        ELSE <<>>])

FirstFive(xs) == SubSeq(xs, 1, IF Len(xs) < 5 THEN Len(xs) ELSE 5)

DealerInsights(data, filtered, dealer) ==
    IF dealer = "All Dealers"
    THEN [tab |-> "dealer_insights", status |-> "ok", details |-> FALSE]
    ELSE LET dealer_data == MaskSelect(filtered, DealerMask(filtered, dealer))
             rs == ReviewsOf(data, dealer)
         IN IF dealer_data = <<>>
            THEN [tab |-> "dealer_insights", status |-> "IndexError"]
            ELSE [tab |-> "dealer_insights", status |-> "ok", details |-> TRUE,
                  rating |-> Format2f(DoubleOfTenths(dealer_data[1].Rating)),
                  total_reviews |-> dealer_data[1].TotalReviews,
                  sentiments |-> AnalyzeSentiment(rs),
                  shown |-> FirstFive(rs)]

\* the calendar month, as year * 100 + month, of a Unix time >= 0
YearMonth(ts) ==
    LET z == (ts \div 86400) + 719468
        era == z \div 146097
        doe == z - era * 146097
        yoe == (doe - doe \div 1460 + doe \div 36524 - doe \div 146096) \div 365
        doy == doe - (365 * yoe + yoe \div 4 - yoe \div 100)
        mp == (5 * doy + 2) \div 153
        m == IF mp < 10 THEN mp + 3 ELSE mp - 9
        y == yoe + era * 400 + (IF m <= 2 THEN 1 ELSE 0)
    IN y * 100 + m

ReviewTrends(filtered) ==
    LET review_times ==
            Flatten([i \in 1 .. Len(filtered) |-> filtered[i].ReviewTime])
    IN IF review_times # <<>>
       THEN [tab |-> "review_trends", status |-> "ok", chart |-> TRUE,
             counts |-> ValueCounts([i \in 1 .. Len(review_times) |->
                                        YearMonth(review_times[i])])]
       ELSE [tab |-> "review_trends", status |-> "ok", chart |-> FALSE,
             counts |-> <<>>]

Marker(r) ==
    [location |-> <<r.Latitude, r.Longitude>>, dealer |-> r.Dealer,
     rating |-> r.Rating,
     color |-> IF r.Rating >= BlueRating THEN "blue" ELSE "red"]

DealerMap(filtered) ==
    [tab |-> "dealer_map", status |-> "ok",
     markers |-> LET shown == MaskSelect(filtered,
                        [i \in 1 .. Len(filtered) |->
                            ~IsNa(filtered[i].Latitude)
                                /\ ~IsNa(filtered[i].Longitude)])
                 IN [i \in 1 .. Len(shown) |-> Marker(shown[i])]]

---------------------------------------------------------------------------
(* The script: load, enrichment loop, sidebar, filter_data, tabs *)

\* sequences of length at most n over S
SeqsUpTo(S, n) == UNION {[1 .. k -> S] : k \in 0 .. n}

SomeReviews == << [polarity |-> 50, time |-> 1642204800],
                  [polarity |-> -20, time |-> 1642636800],
                  [polarity |-> -60, time |-> 1643673600] >>

\* dealers that differ in what filter_data reads
FilterDealers ==
    { [actual_name |-> n, overall_rating |-> r, total_reviews |-> 10,
       province |-> p, postal_code |-> 0, latitude |-> "43.70",
       longitude |-> "-79.40",
       reviews |-> IF n = "A" THEN SomeReviews ELSE <<>>,
       place_id |-> IF n = "A" THEN "ChIJ-A" ELSE Missing,
       Rating |-> Missing, TotalReviews |-> Missing, Reviews |-> Missing,
       Status |-> Missing] :
      n \in {"A", "B"}, r \in {20, 35}, p \in {"ON", "BC"} }
    \cup
    \* "province": null
    { [actual_name |-> "B", overall_rating |-> 35, total_reviews |-> 10,
       province |-> None, postal_code |-> 0, latitude |-> "43.70",
       longitude |-> "-79.40", reviews |-> <<>>, place_id |-> Missing,
       Rating |-> Missing, TotalReviews |-> Missing, Reviews |-> Missing,
       Status |-> Missing] }

\* dealers that differ in what the enrichment loop reads
EnrichDealers ==
    { [actual_name |-> "C", overall_rating |-> 48, total_reviews |-> 3,
       province |-> Missing, postal_code |-> c, latitude |-> la,
       longitude |-> lo, reviews |-> <<>>, place_id |-> "",
       Rating |-> Missing, TotalReviews |-> Missing, Reviews |-> Missing,
       Status |-> Missing] :
      c \in TrackedCodes, la \in {None, "43.70"}, lo \in {None, "-79.40"} }

Datasets == SeqsUpTo(FilterDealers, MaxRecords)
                \cup SeqsUpTo(EnrichDealers, MaxRecords)

\* what the sidebar's widgets can be set to
StartDates == {"2022-01-01", "2022-02-01"}
EndDates == {"2022-03-01"}
RatingStops == {10, 35, 50}
RatingRanges == {rr \in RatingStops \X RatingStops : rr[1] <= rr[2]}

\* df["Province"].dropna().unique()
Provinces(frame) ==
    {frame[i].Province : i \in {j \in 1 .. Len(frame) : ~IsNa(frame[j].Province)}}
DealersIn(frame, provinces) ==
    {frame[i].Dealer : i \in {j \in 1 .. Len(frame) : frame[j].Province \in provinces}}

InitScript ==
    /\ dealers_data \in Datasets
    /\ df = <<>>
    /\ index = 0
    /\ log = <<>>
    /\ pc = "load"
    /\ sidebar = NoSidebar
    /\ filtered_df = <<>>
    /\ view = [tab |-> "none", status |-> "ok"]
    /\ updated_dealers = <<>>
    /\ refreshes = 0

Init == InitCache /\ InitScript /\ InitSentIdle

\* lines 25-38
LoadData ==
    /\ pc = "load"
    /\ df' = BuildFrame(dealers_data)
    /\ index' = 1
    /\ pc' = IF dealers_data = <<>> THEN "sidebar" ELSE "enrich"
    /\ UNCHANGED <<dealers_data, log, sidebar, filtered_df, view, updated_dealers,
                   refreshes>>
    /\ UNCHANGED geoVars
    /\ UNCHANGED sentVars

\* df.at[index, "Latitude"] = lat; df.at[index, "Longitude"] = lng
SetCoordinates(frame, i, value) ==
    [frame EXCEPT ![i].Latitude = value[1], ![i].Longitude = value[2]]

\* whether the loop body asks for the row's coordinates
NeedsGeocoding(row) == IsNa(row.Latitude)

\* one pass of the enrichment loop, the service answering resp if asked
EnrichStep(resp) ==
    /\ pc = "enrich"
    /\ index <= Len(df)
    /\ IF NeedsGeocoding(df[index])
       THEN \E st \in {Call([cache |-> cache, last |-> last, hist |-> hist],
                            now, df[index].PostalCode, resp)} :
               /\ cache' = st.cache
               /\ last' = st.last
               /\ hist' = st.hist
               /\ IF st.last.raised
                  THEN /\ df' = df
                       /\ log' = Append(log, "error")
                       /\ pc' = "crashed"
                       /\ index' = index
                  ELSE /\ df' = SetCoordinates(df, index, st.last.value)
                       /\ log' = Append(log,
                            IF st.last.lookups = 0 THEN "hit"
                            ELSE IF st.last.failed THEN "not_found"
                            ELSE "found")
                       /\ index' = index + 1
                       /\ pc' = IF index = Len(df) THEN "sidebar" ELSE "enrich"
       ELSE /\ UNCHANGED <<cache, last, hist, df>>
            /\ log' = Append(log, "skipped")
            /\ index' = index + 1
            /\ pc' = IF index = Len(df) THEN "sidebar" ELSE "enrich"
    /\ UNCHANGED <<now, fresh, runs, dealers_data, sidebar, filtered_df, view,
                   updated_dealers, refreshes>>
    /\ UNCHANGED sentVars

\* lines 132-138: the widgets' values; the DataFrame of an empty JSON list has
\* no "Province" column and df["Province"] raises KeyError
Sidebar ==
    /\ pc = "sidebar"
    /\ \/ /\ df = <<>>
          /\ pc' = "crashed"
          /\ view' = [tab |-> "sidebar", status |-> "KeyError"]
          /\ UNCHANGED sidebar
       \/ /\ df # <<>>
          /\ \E sd \in StartDates, ed \in EndDates,
                pf \in SUBSET Provinces(df), rr \in RatingRanges :
                \E d \in {"All Dealers"} \cup DealersIn(df, pf) :
                   sidebar' = [start_date |-> sd, end_date |-> ed,
                               province_filter |-> pf, dealer_filter |-> d,
                               rating_range |-> rr]
          /\ pc' = "filter"
          /\ UNCHANGED view
    /\ UNCHANGED <<dealers_data, df, index, log, filtered_df, updated_dealers,
                   refreshes>>
    /\ UNCHANGED geoVars
    /\ UNCHANGED sentVars

\* line 141
Filter ==
    /\ pc = "filter"
    /\ filtered_df' = FilterData(df, sidebar.start_date, sidebar.end_date,
                                 sidebar.province_filter, sidebar.rating_range,
                                 sidebar.dealer_filter)
    /\ pc' = "tabs"
    /\ UNCHANGED <<dealers_data, df, index, log, sidebar, view, updated_dealers,
                   refreshes>>
    /\ UNCHANGED geoVars
    /\ UNCHANGED sentVars

\* a tab function runs; an exception ends the script
Tab(result) ==
    /\ pc = "tabs"
    /\ view' = result
    /\ pc' = IF result.status = "ok" THEN "tabs" ELSE "crashed"
    /\ UNCHANGED <<dealers_data, df, index, log, sidebar, filtered_df,
                   updated_dealers, refreshes>>
    /\ UNCHANGED geoVars
    /\ UNCHANGED sentVars

TabNationalOverview == Tab(NationalOverview(filtered_df))
TabDealerInsights ==
    Tab(DealerInsights(dealers_data, filtered_df, sidebar.dealer_filter))
TabReviewTrends == Tab(ReviewTrends(filtered_df))
TabDealerMap == Tab(DealerMap(filtered_df))

\* fetch_live_reviews(dealers_data) is called: updated_dealers = []
FetchCall ==
    /\ pc = "tabs"
    /\ refreshes < MaxRefresh
    /\ refreshes' = refreshes + 1
    /\ updated_dealers' = <<>>
    /\ pc' = "fetch"
    /\ UNCHANGED <<dealers_data, df, index, log, sidebar, filtered_df, view>>
    /\ UNCHANGED geoVars
    /\ UNCHANGED sentVars

\* one pass of its loop, the service answering resp if asked; the pass writes
\* into the dealer of dealers_data and an exception ends the script
FetchStep(resp) ==
    /\ pc = "fetch"
    /\ Len(updated_dealers) < Len(dealers_data)
    /\ LET i == Len(updated_dealers) + 1
           r == FetchPass(dealers_data, i, resp)
       IN /\ dealers_data' = r.dealers
          /\ IF r.raised
             THEN /\ pc' = "crashed"
                  /\ view' = [tab |-> "fetch_live_reviews",
                              status |-> "ConnectionError"]
                  /\ UNCHANGED updated_dealers
             ELSE /\ updated_dealers' = Append(updated_dealers, i)
                  /\ UNCHANGED <<pc, view>>
    /\ UNCHANGED <<df, index, log, sidebar, filtered_df, refreshes>>
    /\ UNCHANGED geoVars
    /\ UNCHANGED sentVars

\* return updated_dealers
FetchReturn ==
    /\ pc = "fetch"
    /\ Len(updated_dealers) = Len(dealers_data)
    /\ pc' = "tabs"
    /\ UNCHANGED <<dealers_data, df, index, log, sidebar, filtered_df, view,
                   updated_dealers, refreshes>>
    /\ UNCHANGED geoVars
    /\ UNCHANGED sentVars

Next ==
    \/ LoadData
    \/ \E resp \in Responses : EnrichStep(resp)
    \/ Sidebar
    \/ Filter
    \/ TabNationalOverview
    \/ TabDealerInsights
    \/ TabReviewTrends
    \/ TabDealerMap
    \/ FetchCall
    \/ \E resp \in PlaceResponses : FetchStep(resp)
    \/ FetchReturn

Spec == Init /\ [][Next]_vars

---------------------------------------------------------------------------
(* analyze_sentiment on its own *)

Polarities == {-21, -20, 0, 20, 21}

AnalyzeCall ==
    /\ \E rs \in SeqsUpTo(Polarities, MaxReviews) :
          /\ reviews' = rs
          /\ sentiment_summary' = AnalyzeSentiment(rs)
    /\ UNCHANGED geoVars
    /\ UNCHANGED scriptVars

InitSent == InitCache /\ InitScriptIdle /\ InitSentIdle

NextSent == AnalyzeCall

SpecSent == InitSent /\ [][NextSent]_vars

---------------------------------------------------------------------------
(* Claims about the geocoding cache *)

\* the call just made follows an earlier call of the same code that returned
AfterReturnedCall == last.prev.callAt >= 0 /\ ~last.prev.callRaised
FewOthers == Cardinality(last.prev.others) < 100
IsHit == last.lookups = 0 /\ ~last.raised

\* C1: two calls of geocode_postal_code with the same postal code less than
\* 86,400 seconds apart return identical results and the second issues no
\* external lookup, whatever calls for other codes come in between; here for
\* an earlier call that returned.
C1_TwoCallsWithinTTL ==
    (AfterReturnedCall /\ last.time - last.prev.callAt < 86400)
        => (IsHit /\ last.value = last.prev.callVal)

\* C6: once the entry of a postal code has expired (86,400 seconds or more
\* after it was stored), the next call issues exactly one external lookup, and
\* further calls within 86,400 seconds of that call issue none.
C6_ExpiryThenWindow ==
    /\ (/\ last.prev.insAt >= 0
        /\ last.time >= last.prev.insAt + 86400
        /\ last.prev.callAt < last.prev.insAt + 86400)
          => last.lookups = 1
    /\ (last.prev.renewAt >= 0 /\ last.time < last.prev.renewAt + 86400)
          => last.lookups = 0

Keys(c) == {c[i].key : i \in 1 .. Len(c)}

\* a step that stores one new key in a cache full of unexpired entries
\* removes the least recently used entry and nothing else
EvictsLeastRecentlyUsed ==
    LET live == Expire(cache, now)
    IN (Len(live) = 100 /\ Cardinality(Keys(cache') \ Keys(live)) = 1)
          => /\ Len(cache') = 100
             /\ SubSeq(cache', 1, 99) = Tail(live)

\* C7: after any sequence of calls the cache holds at most 100 entries, and
\* storing a new postal code in a full cache first evicts one entry, the
\* least recently used one.
C7_BoundedLRU ==
    /\ [](Len(cache) <= 100)
    /\ [][EvictsLeastRecentlyUsed]_vars

\* the cache is full and the hot postal code, stored and not yet expired, is
\* no longer in it
C7_Witness ==
    /\ Len(cache) = 100
    /\ hist[0].insAt >= 0 /\ now < hist[0].insAt + 86400
    /\ ~HasKey(cache, 0)

\* C9: a failed lookup (non-OK status, empty result set or transport error) is
\* cached as NotFound, so the next call of the same postal code within the TTL
\* issues no external lookup.
C9_FailureCached ==
    (last.prev.callFailed /\ last.time < last.prev.callAt + 86400 /\ FewOthers)
        => (last.lookups = 0 /\ last.value = NoneNone)

---------------------------------------------------------------------------
(* Claims about the script *)

Loaded == BuildFrame(dealers_data)
EnrichmentDone == pc \in {"sidebar", "filter", "tabs", "fetch"}

\* everything of a row but its coordinates
Rest(r) == [r EXCEPT !.Latitude = None, !.Longitude = None]

\* C2: a failed geocoding lookup (non-OK status, empty result set or
\* transport error) is not fatal: the row gets null coordinates, keeps its
\* other fields and stays in the dataset, and the loop goes on.
C2_FailureNotFatal ==
    \A i \in 1 .. Len(log) :
        log[i] \in {"not_found", "error"}
            => /\ pc # "crashed"
               /\ Len(df) = Len(dealers_data)
               /\ IsNa(df[i].Latitude) /\ IsNa(df[i].Longitude)
               /\ Rest(df[i]) = Rest(Loaded[i])

\* C4: once the enrichment loop has finished, every row has latitude and
\* longitude both present or both absent.
C4_BothOrNeither ==
    EnrichmentDone
        => \A i \in 1 .. Len(df) : IsNa(df[i].Latitude) <=> IsNa(df[i].Longitude)

\* C10: a row's coordinates are written only by the enrichment loop and only
\* if they were absent at load: a coordinate present at load keeps its value,
\* and no field other than the coordinates ever differs from what was loaded.
C10_WrittenOnlyIfAbsent ==
    pc # "load"
        => /\ Len(df) = Len(Loaded)
           /\ \A i \in 1 .. Len(df) :
                /\ Rest(df[i]) = Rest(Loaded[i])
                /\ ~IsNa(Loaded[i].Latitude)
                      => df[i].Latitude = Loaded[i].Latitude
                /\ ~IsNa(Loaded[i].Longitude)
                      => df[i].Longitude = Loaded[i].Longitude

\* filter_data has returned
Filtered ==
    \/ pc \in {"tabs", "fetch"}
    \/ (pc = "crashed" /\ view.tab \in {"dealer_insights", "fetch_live_reviews"})

\* the criteria of the sidebar hold of row r
Kept(r) ==
    /\ r.Rating >= sidebar.rating_range[1]
    /\ r.Rating <= sidebar.rating_range[2]
    /\ r.Province \in sidebar.province_filter
    /\ (sidebar.dealer_filter = "All Dealers" \/ r.Dealer = sidebar.dealer_filter)

\* C3: filter_data returns exactly the rows whose rating lies in [low, high],
\* whose province is in the allowed set and, unless the dealer is
\* "All Dealers", whose name equals the dealer, in their original order,
\* whatever the start and end dates.
C3_FilterExact ==
    Filtered
        => /\ \A j \in 1 .. Len(filtered_df) :
                /\ filtered_df[j].label + 1 \in 1 .. Len(df)
                /\ filtered_df[j] = df[filtered_df[j].label + 1]
                /\ Kept(filtered_df[j])
           /\ \A i \in 1 .. Len(df) :
                Kept(df[i])
                    => \E j \in 1 .. Len(filtered_df) :
                          filtered_df[j].label = df[i].label
           /\ \A j, k \in 1 .. Len(filtered_df) :
                j < k => filtered_df[j].label < filtered_df[k].label

\* the first row dropped, the second kept with its rating on the lower bound,
\* the dealer selected, the later start date
C3_Witness ==
    /\ pc = "tabs"
    /\ Len(df) = 2 /\ Len(filtered_df) = 1
    /\ filtered_df[1].label = 1
    /\ filtered_df[1].Rating = sidebar.rating_range[1]
    /\ df[1].Province \in sidebar.province_filter
    /\ sidebar.dealer_filter = filtered_df[1].Dealer
    /\ sidebar.start_date = "2022-02-01"

\* C5: when no row matches the criteria, every computation on the empty
\* result (count, average, sum, distribution, trend, the selected dealer's
\* details) completes with a defined result.
C5_EmptyIsDefined ==
    (Filtered /\ filtered_df = <<>> /\ view.tab # "fetch_live_reviews")
        => view.status = "ok"

---------------------------------------------------------------------------
(* Claims about analyze_sentiment *)

CountOf(P(_)) == Cardinality({i \in 1 .. Len(reviews) : P(reviews[i])})

\* C8: analyze_sentiment counts every text in exactly one bucket: Positive
\* iff its polarity > 0.2, Negative iff < -0.2, Neutral otherwise; the counts
\* sum to the number of texts and no text gives the all-zero tally.
C8_TallyExact ==
    /\ sentiment_summary.Positive = CountOf(LAMBDA p : p > 20)
    /\ sentiment_summary.Negative = CountOf(LAMBDA p : p < -20)
    /\ sentiment_summary.Neutral = CountOf(LAMBDA p : p >= -20 /\ p <= 20)
    /\ sentiment_summary.Positive + sentiment_summary.Negative
          + sentiment_summary.Neutral = Len(reviews)
    /\ reviews = <<>>
          => sentiment_summary = [Positive |-> 0, Neutral |-> 0, Negative |-> 0]

\* polarities 0.2, -0.2 and 0.21 tallied as two Neutral and one Positive
C8_Witness ==
    /\ reviews = <<20, -20, 21>>
    /\ sentiment_summary = [Positive |-> 1, Neutral |-> 2, Negative |-> 0]

====
